---------------------------- MODULE Spec2Model ----------------------------
(***************************************************************************)
(* md-preview: the Markdown-to-styled-document transducer render_markdown  *)
(* (src/main.rs 442-668) together with the placeholder substitution of     *)
(* PreviewState::new (src/main.rs 135-150).                                *)
(*                                                                         *)
(* A string is a sequence of one-character strings, so that replace, find, *)
(* lines and format! are computed the way the code computes them.  The     *)
(* event stream of the external tokenizer is the input: each step of the   *)
(* model is one iteration of the `for event in parser` loop.               *)
(***************************************************************************)
EXTENDS Integers, Sequences, FiniteSets, TLC

(***************************************************************************)
(* Bounds of the model (not program constants).                            *)
(***************************************************************************)
\* longest stream of the unrestricted family (any event after any event)
MaxEvents == 3
\* longest stream of the list family
MaxListEvents == 8
\* deepest nesting of open tags in the list family
MaxDepth == 4
\* number of body rows of a table in the table family
MaxRows == 1
\* number of text events inside one code block in the code family
MaxCodeTexts == 2
\* number of events inside the one block of the inline family
MaxInline == 3
\* number of changes other processes make to the file system during a run
MaxFsChanges == 1

(***************************************************************************)
(* Strings                                                                 *)
(***************************************************************************)
\* the character that ends a line, and the carriage return lines() strips
NL == "\n"
CR == "\r"

\* "<br>" and "<BR>", the two literals PreviewState::new replaces
BrLower == <<"<", "b", "r", ">">>
BrUpper == <<"<", "B", "R", ">">>

\* let placeholder = "[[BR_TAG]]";
placeholder == <<"[", "[", "B", "R", "_", "T", "A", "G", "]", "]">>

\* whether pat occurs in s at index i (1-based)
MatchAt(s, pat, i) ==
    /\ i >= 1
    /\ i + Len(pat) - 1 <= Len(s)
    /\ \A j \in 1..Len(pat) : s[i + j - 1] = pat[j]

\* str::find on s[from..]: the index of the first occurrence of pat at or
\* after index from, 0 when there is none (None)
RECURSIVE Find(_, _, _)
Find(s, pat, from) ==
    IF from + Len(pat) - 1 > Len(s) THEN 0
    ELSE IF MatchAt(s, pat, from) THEN from
    ELSE Find(s, pat, from + 1)

\* str::contains
Contains(s, pat) == Find(s, pat, 1) # 0

\* str::replace: every non-overlapping occurrence, left to right
RECURSIVE Replace(_, _, _)
Replace(s, from, to) ==
    LET p == Find(s, from, 1) IN
    IF p = 0 \/ Len(from) = 0 THEN s
    ELSE SubSeq(s, 1, p - 1) \o to
         \o Replace(SubSeq(s, p + Len(from), Len(s)), from, to)

\* original_markdown.replace("<br>", placeholder).replace("<BR>", placeholder)
Substitute(src) == Replace(Replace(src, BrLower, placeholder), BrUpper, placeholder)

\* one line of str::lines(): a trailing "\r" (of "\r\n") is stripped
StripCR(l) ==
    IF Len(l) > 0 /\ l[Len(l)] = CR THEN SubSeq(l, 1, Len(l) - 1) ELSE l

\* str::lines(): split at "\n"; the last line needs no terminator and an
\* empty remainder after the final "\n" is not a line
RECURSIVE TextLines(_)
TextLines(s) ==
    IF s = <<>> THEN <<>>
    ELSE LET p == Find(s, <<NL>>, 1) IN
         IF p = 0 THEN <<s>>
         ELSE <<StripCR(SubSeq(s, 1, p - 1))>> \o TextLines(SubSeq(s, p + 1, Len(s)))

\* the decimal digits of format!("{}", n)
DigitChar(d) == <<"0", "1", "2", "3", "4", "5", "6", "7", "8", "9">>[d + 1]

RECURSIVE Digits(_)
Digits(n) ==
    IF n < 10 THEN <<DigitChar(n)>>
    ELSE Digits(n \div 10) \o <<DigitChar(n % 10)>>

\* s.repeat(k)
RECURSIVE Repeat(_, _)
Repeat(s, k) == IF k <= 0 THEN <<>> ELSE s \o Repeat(s, k - 1)

\* u64, the type of the entries of list_stack: a number is held as three
\* limbs <<hi, mid, lo>> in base 10^9, its value being hi*10^18 + mid*10^9 + lo
Limb == 1000000000
U64Of(k) == <<0, 0, k>>
\* u64::MAX = 18446744073709551615
U64Max == <<18, 446744073, 709551615>>

\* u + 1 for u < u64::MAX
U64Inc(u) ==
    IF u[3] < Limb - 1 THEN <<u[1], u[2], u[3] + 1>>
    ELSE IF u[2] < Limb - 1 THEN <<u[1], u[2] + 1, 0>>
    ELSE <<u[1] + 1, 0, 0>>

\* u + k for a small k, by k increments
RECURSIVE U64Add(_, _)
U64Add(u, k) == IF k <= 0 THEN u ELSE U64Add(U64Inc(u), k - 1)

\* the nine digits of a limb below the leading one
Pad9(k) == LET d == Digits(k) IN Repeat(<<"0">>, 9 - Len(d)) \o d

\* the decimal digits of format!("{}", u) for a u64
U64Digits(u) ==
    IF u[1] > 0 THEN Digits(u[1]) \o Pad9(u[2]) \o Pad9(u[3])
    ELSE IF u[2] > 0 THEN Digits(u[2]) \o Pad9(u[3])
    ELSE Digits(u[3])

\* format!("{}. ", *num)
NumberMarker(num) == U64Digits(num) \o <<".", " ">>

\* Glyphs outside ASCII are single characters named by their Unicode code point:
\* U+2022 bullet, U+2502 vertical bar, U+258E quote bar, U+2500 horizontal bar,
\* U+250C top-left corner, U+2514 bottom-left corner.
\* "<bullet> ".to_string()
BulletMarker == <<"U+2022", " ">>

\* usize::saturating_sub
SatSub(a, b) == IF a > b THEN a - b ELSE 0

\* Indent without the spaces
IndentNone(depth) == <<>>

\* "  ".repeat(list_stack.len().saturating_sub(1))
Indent(depth) == Repeat(<<" ", " ">>, SatSub(depth, 1))

\* width of the horizontal rule, "<U+2500>".repeat(80)
RuleWidth == 80

(***************************************************************************)
(* Styles, spans and lines                                                 *)
(***************************************************************************)
\* GITHUB_DARK_THEME; a colour is its hex value, "None" is an unset colour
theme ==
    [ bg             |-> "#0d1117",
      fg             |-> "#c9d1d9",
      selection_bg   |-> "#032252",
      selection_fg   |-> "#c9d1d9",
      comment        |-> "#8b949e",
      link           |-> "#58a6ff",
      heading        |-> "#58a6ff",
      code_bg        |-> "#161b22",
      inline_code_bg |-> "#282d35",
      quote_fg       |-> "#8b949e",
      quote_border   |-> "#30363d",
      hr             |-> "#21262d" ]

\* Style::default()
StyleDefault == [fg |-> "None", bg |-> "None", add |-> {}]

\* Style::fg, Style::bg, Style::add_modifier
Fg(style, c) == [style EXCEPT !.fg = c]
Bg(style, c) == [style EXCEPT !.bg = c]
AddModifier(style, m) == [style EXCEPT !.add = @ \cup {m}]

\* vec![Style::default().fg(theme.fg)]: the baseline entry of the style stack
BaselineStyle == Fg(StyleDefault, theme.fg)

\* Span::styled(content, style) and Span::raw(content)
Styled(content, style) == [content |-> content, style |-> style]
Raw(content) == Styled(content, StyleDefault)

\* Line::default(): a Line is the sequence of its Spans
BlankLine == <<>>

\* the glyph spans the renderer emits
VBar == "U+2502"
QuoteBar == "U+258E"
HBar == "U+2500"
CornerTop == "U+250C"
CornerBottom == "U+2514"

\* Span::styled("<vbar> ", fg comment): row-open border, code line border
BorderSpan == Styled(<<VBar, " ">>, Fg(StyleDefault, theme.comment))
\* Span::styled(" <vbar> ", fg comment): the cell separator
CellSeparator == Styled(<<" ", VBar, " ">>, Fg(StyleDefault, theme.comment))
\* Line of the code block header: corner glyph, then the language label
CodeHeaderLine(lang) ==
    << Styled(<<CornerTop, HBar, HBar, HBar, " ">>, Fg(StyleDefault, theme.comment)),
       Styled(lang, Fg(StyleDefault, "Yellow")) >>
\* Line closing a code block: the corner and 18 horizontal bars
CodeFooterLine ==
    << Styled(<<CornerBottom>> \o Repeat(<<HBar>>, 18), Fg(StyleDefault, theme.comment)) >>
\* Line of the thematic break
RuleLine == << Styled(Repeat(<<HBar>>, RuleWidth), Fg(StyleDefault, theme.hr)) >>

(***************************************************************************)
(* Events of the tokenizer (pulldown_cmark::Event)                         *)
(***************************************************************************)
\* Option<u64>: <<>> is None, <<n>> is Some(n)
None == <<>>
Some(x) == <<x>>

\* every event is a record of the same shape; unused fields keep these values
NoEvent ==
    [ k |-> "None", tag |-> "", level |-> 0, indented |-> FALSE, lang |-> <<>>,
      src |-> <<>>, text |-> <<>>, start |-> None, aligns |-> <<>> ]

StartEv(tag) == [NoEvent EXCEPT !.k = "Start", !.tag = tag]
EndEv(tag) == [NoEvent EXCEPT !.k = "End", !.tag = tag]
HeadingEv(level) == [StartEv("Heading") EXCEPT !.level = level]
FencedEv(lang) == [StartEv("CodeBlock") EXCEPT !.lang = lang]
IndentedEv == [StartEv("CodeBlock") EXCEPT !.indented = TRUE]
TableEv(aligns) == [StartEv("Table") EXCEPT !.aligns = aligns]
ListEv(start) == [StartEv("List") EXCEPT !.start = start]

\* An event that carries text of the file: src is the text as it stands in the
\* file, text what the tokenizer delivers, because PreviewState::new hands the
\* tokenizer the substituted source (processed_markdown).
TextEv(src) == [NoEvent EXCEPT !.k = "Text", !.src = src, !.text = Substitute(src)]
HtmlEv(src) == [NoEvent EXCEPT !.k = "Html", !.src = src, !.text = Substitute(src)]
CodeEv(src) == [NoEvent EXCEPT !.k = "Code", !.src = src, !.text = Substitute(src)]
LeafEv(k) == [NoEvent EXCEPT !.k = k]

\* the tags with an arm of their own in render_markdown, and two of the tags
\* that fall to the `_ => {}` arm of Start (Paragraph, Image)
Tags ==
    { "Paragraph", "Heading", "BlockQuote", "CodeBlock", "Table", "TableHead",
      "TableRow", "TableCell", "List", "Item", "Emphasis", "Strong",
      "Strikethrough", "Link", "Image" }

(***************************************************************************)
(* State                                                                   *)
(***************************************************************************)
VARIABLES
    \* locals of render_markdown (lines 443-449)
    lines,              \* Vec<Line>: the output document
    current_spans,      \* Vec<Span>: the pending line
    style_stack,        \* Vec<Style>
    list_stack,         \* Vec<u64>
    table_alignments,   \* Vec<Alignment>
    in_table_header,    \* bool
    in_code_block,      \* bool
    \* the position of the loop: "loop" while events remain, "done" after the
    \* final flush (lines 664-667)
    pc,
    \* the input: the tokenizer's stream, as far as it has been delivered
    family,             \* which set of streams this run's input is drawn from
    n,                  \* number of events delivered
    open,               \* the tags the tokenizer has open, innermost last
    wellFormed,         \* every End so far closed the innermost open tag
    last,               \* the event handled last
    \* locals of run (lines 185-187) and its outcome
    mode,               \* AppMode: "Explorer" or "Preview"
    explorer_state,     \* ExplorerState
    preview_state,      \* Option<PreviewState>
    run_result,         \* "running" in the loop, "quit" / "error" once run returned
    \* the file system run works on
    fs,                 \* the condition of each path
    fs_changes,         \* number of changes made to it from outside
    \* the terminal run draws on
    frame_height        \* the height terminal.size() reports

vars ==
    << lines, current_spans, style_stack, list_stack, table_alignments,
       in_table_header, in_code_block, pc, family, n, open, wellFormed, last,
       mode, explorer_state, preview_state, run_result, fs, fs_changes, frame_height >>

runVars ==
    << mode, explorer_state, preview_state, run_result, fs, fs_changes, frame_height >>

tokenizerVars == << pc, family, n, open, wellFormed, last >>

renderVars ==
    << lines, current_spans, style_stack, list_stack, table_alignments,
       in_table_header, in_code_block >>

(***************************************************************************)
(* The input streams                                                       *)
(***************************************************************************)
\* texts of the file that events carry
TxtA == <<"a">>
TxtBreak == <<"a", "<", "b", "r", ">", "b">>
TxtUpperBreak == <<"<", "B", "R", ">", "x">>
TxtBold == <<"*", "*", "b", "*", "*">>
TxtTwoLines == <<"x", NL, "<", "b", "r", ">", "y", NL>>

TxtLeadBreak == <<"<", "b", "r", ">", "a">>
TxtTrailBreak == <<"a", "<", "b", "r", ">">>
TxtTwoBreaks == <<"a", "<", "b", "r", ">", "<", "B", "R", ">", "b">>

AnyTexts == {TxtA, TxtBreak}
InlineTexts == {TxtA, TxtBreak, TxtLeadBreak, TxtTrailBreak, TxtTwoBreaks}
CellTexts == {TxtA, TxtBreak}
CodeTexts == {TxtBold, TxtUpperBreak, TxtTwoLines}
HeadingLevels == {1, 2, 3}
\* start numbers of ordered lists: the tokenizer reads at most nine digits
ListStarts == {None, Some(U64Of(1)), Some(U64Of(9)), Some(U64Of(999999999))}
TableAligns == {<<"None", "None">>, <<"Left", "Right", "Center">>}
FenceLangs == {<<>>, <<"r", "s">>}

\* "# Title\n\nHello **world**."
TitleDoc ==
    << HeadingEv(1), TextEv(<<"T", "i", "t", "l", "e">>), EndEv("Heading"),
       StartEv("Paragraph"), TextEv(<<"H", "e", "l", "l", "o", " ">>),
       StartEv("Strong"), TextEv(<<"w", "o", "r", "l", "d">>), EndEv("Strong"),
       TextEv(<<".">>), EndEv("Paragraph") >>

\* "| A | B |\n|---|---|\n| 1 | 2 |": the header's cells lie directly in
\* TableHead, the body's cells in a TableRow
TableDoc ==
    << TableEv(<<"None", "None">>), StartEv("TableHead"),
       StartEv("TableCell"), TextEv(<<"A">>), EndEv("TableCell"),
       StartEv("TableCell"), TextEv(<<"B">>), EndEv("TableCell"),
       EndEv("TableHead"), StartEv("TableRow"),
       StartEv("TableCell"), TextEv(<<"1">>), EndEv("TableCell"),
       StartEv("TableCell"), TextEv(<<"2">>), EndEv("TableCell"),
       EndEv("TableRow"), EndEv("Table") >>

Families == {"any", "list", "table", "code", "inline", "title", "tabledoc"}

Script(f) == IF f = "title" THEN TitleDoc ELSE IF f = "tabledoc" THEN TableDoc ELSE <<>>

\* the innermost open tag's entry; at the top level a Doc entry
DocEntry == [ev |-> StartEv("Doc"), kids |-> 0, items |-> 0]
Top == IF open = <<>> THEN DocEntry ELSE open[Len(open)]

\* one tag of each arm of the End match: an End of these is offered whether or
\* not it closes the innermost open tag
EndArmTags ==
    { "Item", "CodeBlock", "Table", "TableHead", "TableRow", "TableCell", "List",
      "Paragraph", "Strong", "Image" }

\* any event after any event: the streams of a misbehaving tokenizer included
AnyEvents ==
    {HeadingEv(l) : l \in HeadingLevels}
    \cup {StartEv(t) : t \in Tags \ {"Heading", "CodeBlock", "Table", "List"}}
    \cup {IndentedEv, TableEv(<<"None", "None">>), ListEv(None), ListEv(Some(U64Of(1))),
          ListEv(Some(U64Max))}
    \cup {EndEv(t) : t \in EndArmTags}
    \cup (IF open = <<>> THEN {} ELSE {EndEv(Top.ev.tag)})
    \cup {TextEv(t) : t \in AnyTexts}
    \cup {HtmlEv(TxtBreak), CodeEv(TxtA)}
    \cup {LeafEv(k) : k \in {"HardBreak", "SoftBreak", "Rule", "Other"}}

\* lists as the tokenizer delivers them: a List holds Items, an Item holds
\* text and Lists
ListEvents ==
    LET t == Top.ev.tag
        room == Len(open) < MaxDepth IN
    IF t = "Doc" THEN {ListEv(s) : s \in ListStarts}
    ELSE IF t = "List" THEN {EndEv("List")} \cup (IF room THEN {StartEv("Item")} ELSE {})
    ELSE {EndEv("Item")}
         \cup (IF Top.kids = 0 THEN {TextEv(TxtA)} ELSE {})
         \cup (IF room THEN {ListEv(s) : s \in ListStarts} ELSE {})

\* tables as the tokenizer delivers them: one TableHead, then TableRows, each
\* with one TableCell per column
TableEvents ==
    LET t == Top.ev.tag IN
    IF t = "Doc" THEN (IF n = 0 THEN {TableEv(a) : a \in TableAligns} ELSE {})
    ELSE IF t = "Table" THEN
        IF Top.kids = 0 THEN {StartEv("TableHead")}
        ELSE {EndEv("Table")}
             \cup (IF Top.kids <= MaxRows THEN {StartEv("TableRow")} ELSE {})
    ELSE IF t \in {"TableHead", "TableRow"} THEN
        IF Top.kids < Len(open[1].ev.aligns) THEN {StartEv("TableCell")} ELSE {EndEv(t)}
    ELSE {EndEv("TableCell")}
         \cup (IF Top.kids = 0 THEN {TextEv(x) : x \in CellTexts} ELSE {})

\* code blocks as the tokenizer delivers them: text events only; the block
\* stands at the top level or inside a block quote
CodeEvents ==
    LET t == Top.ev.tag
        blocks == {IndentedEv} \cup {FencedEv(l) : l \in FenceLangs} IN
    IF t = "Doc" THEN (IF n = 0 THEN blocks \cup {StartEv("BlockQuote")} ELSE {})
    ELSE IF t = "BlockQuote" THEN (IF Top.kids = 0 THEN blocks ELSE {EndEv("BlockQuote")})
    ELSE {EndEv("CodeBlock")}
         \cup (IF Top.kids < MaxCodeTexts THEN {TextEv(x) : x \in CodeTexts} ELSE {})

\* one paragraph or one heading (of any of the six levels) as the tokenizer
\* delivers it: texts, soft breaks and hard breaks
InlineEvents ==
    LET t == Top.ev.tag IN
    IF t = "Doc" THEN
        (IF n = 0 THEN {StartEv("Paragraph")} \cup {HeadingEv(l) : l \in 1..6} ELSE {})
    ELSE {EndEv(t)}
         \cup (IF Top.kids < MaxInline
               THEN {TextEv(x) : x \in InlineTexts}
                    \cup {LeafEv("HardBreak"), LeafEv("SoftBreak")}
               ELSE {})

\* the events the tokenizer can deliver next
Offered ==
    IF pc # "loop" THEN {}
    ELSE IF family = "any" THEN (IF n < MaxEvents THEN AnyEvents ELSE {})
    ELSE IF family = "list" THEN (IF n < MaxListEvents THEN ListEvents ELSE {})
    ELSE IF family = "table" THEN TableEvents
    ELSE IF family = "code" THEN CodeEvents
    ELSE IF family = "inline" THEN InlineEvents
    ELSE IF n < Len(Script(family)) THEN {Script(family)[n + 1]} ELSE {}

\* whether the stream can end here: a stream of the tokenizer ends with every
\* tag closed; a stream of the unrestricted family ends anywhere
StreamEnds ==
    IF family = "any" THEN TRUE
    ELSE IF family \in {"title", "tabledoc"} THEN n = Len(Script(family))
    ELSE open = <<>> /\ n > 0

\* an End event closes the innermost open tag
Matches(ev) == ev.k = "End" => (open # <<>> /\ Top.ev.tag = ev.tag)

\* the open tags after ev
Bumped(ev) ==
    IF open = <<>> THEN open
    ELSE [open EXCEPT ![Len(open)] =
            [@ EXCEPT !.kids = @ + 1,
                      !.items = IF ev.k = "Start" /\ ev.tag = "Item" THEN @ + 1 ELSE @]]

NextOpen(ev) ==
    IF ev.k = "Start" THEN Append(Bumped(ev), [ev |-> ev, kids |-> 0, items |-> 0])
    ELSE IF ev.k = "End" THEN
        (IF Matches(ev) THEN SubSeq(open, 1, Len(open) - 1) ELSE open)
    ELSE Bumped(ev)

\* the tokenizer delivers ev
Deliver(ev) ==
    /\ n' = n + 1
    /\ last' = ev
    /\ open' = NextOpen(ev)
    /\ wellFormed' = (wellFormed /\ Matches(ev))
    /\ UNCHANGED <<pc, family>>
    /\ UNCHANGED runVars

(***************************************************************************)
(* The file system, ExplorerState and PreviewState                         *)
(***************************************************************************)
\* A file name is a sequence of characters, a path the sequence of its names
\* from the root directory: / holds the directory d, in which run starts, and
\* d holds the directory s and the files a and m.md.
NameD == <<"d">>
NameS == <<"s">>
NameA == <<"a">>
NameM == <<"m", ".", "m", "d">>

RootPath == <<>>
HomePath == <<NameD>>
SubPath == <<NameD, NameS>>
FileA == <<NameD, NameA>>
FileM == <<NameD, NameM>>

Dirs == {RootPath, HomePath, SubPath}
Files == {FileA, FileM}
Nodes == Dirs \cup Files

\* what a path can be: as created, without read permission, or removed; the
\* directories that hold other paths are not removed
Conditions(p) ==
    IF p \in {RootPath, HomePath} THEN {"ok", "unreadable"}
    ELSE {"ok", "unreadable", "missing"}

\* Path::parent: None for the root
PathParent(p) == IF p = <<>> THEN None ELSE Some(SubSeq(p, 1, Len(p) - 1))

\* Path::is_dir, Path::is_file, and Ok of dunce::canonicalize
Exists(p) == p \in Nodes /\ fs[p] # "missing"
IsDir(p) == Exists(p) /\ p \in Dirs
IsFile(p) == Exists(p) /\ p \in Files

\* fs::read_dir(p) and fs::read_to_string(p) return Ok
CanReadDir(p) == IsDir(p) /\ fs[p] = "ok"
CanReadFile(p) == IsFile(p) /\ fs[p] = "ok"

\* path.extension(): the characters after the last "." of the last name, None
\* without a "." past the first character
RECURSIVE LastDot(_, _)
LastDot(name, i) == IF i < 1 THEN 0 ELSE IF name[i] = "." THEN i ELSE LastDot(name, i - 1)

Extension(p) ==
    IF p = <<>> THEN None
    ELSE LET name == p[Len(p)]
             dot == LastDot(name, Len(name)) IN
         IF dot <= 1 THEN None ELSE Some(SubSeq(name, dot + 1, Len(name)))

\* a.cmp(b) of two paths of one directory: the byte order of their last names,
\* given by the place of the name in this list
NameOrder == <<NameA, NameM, NameS>>
NameRank(p) == CHOOSE i \in 1..Len(NameOrder) : NameOrder[i] = p[Len(p)]

\* the comparison of entries.sort_by: directories first, then by path
EntryLess(a, b) ==
    IF IsDir(a) # IsDir(b) THEN IsDir(a) ELSE NameRank(a) < NameRank(b)

\* the paths of a set in the order of EntryLess
RECURSIVE Sorted(_)
Sorted(ps) ==
    IF ps = {} THEN <<>>
    ELSE LET first == CHOOSE a \in ps : \A b \in ps \ {a} : EntryLess(a, b)
         IN  <<first>> \o Sorted(ps \ {first})

\* the entries read_dir yields for p: the paths it holds that exist
Children(p) == {c \in Nodes : c # <<>> /\ PathParent(c) = Some(p) /\ Exists(c)}

\* ExplorerState::load_entries on state st: Ok with the entries sorted and the
\* cursor on the first (the index is that of the code, from 0), or Err with
\* the state as it was
LoadEntries(st) ==
    IF CanReadDir(st.current_path)
    THEN LET entries == Sorted(Children(st.current_path)) IN
         [ ok |-> TRUE,
           state |-> [st EXCEPT !.entries = entries,
                                !.selected = IF entries # <<>> THEN Some(0) ELSE None] ]
    ELSE [ok |-> FALSE, state |-> st]

\* ExplorerState::next and ExplorerState::previous
NextSelected(st) ==
    IF st.entries = <<>> THEN st.selected
    ELSE IF st.selected = None THEN Some(0)
    ELSE IF st.selected[1] >= Len(st.entries) - 1 THEN Some(0)
    ELSE Some(st.selected[1] + 1)

PreviousSelected(st) ==
    IF st.entries = <<>> THEN st.selected
    ELSE IF st.selected = None THEN Some(0)
    ELSE IF st.selected[1] = 0 THEN Some(Len(st.entries) - 1)
    ELSE Some(st.selected[1] - 1)

\* an error message: its wording is named by kind, arg is the text put into it
Message(kind, arg) == Some([kind |-> kind, arg |-> arg])

\* str::trim and str::split_whitespace, for texts whose white space is " "
RECURSIVE TrimStart(_)
TrimStart(t) == IF t # <<>> /\ t[1] = " " THEN TrimStart(Tail(t)) ELSE t
RECURSIVE TrimEnd(_)
TrimEnd(t) ==
    IF t # <<>> /\ t[Len(t)] = " " THEN TrimEnd(SubSeq(t, 1, Len(t) - 1)) ELSE t
Trim(t) == TrimEnd(TrimStart(t))

RECURSIVE SplitWhitespace(_, _)
SplitWhitespace(t, word) ==
    IF t = <<>> THEN (IF word # <<>> THEN <<word>> ELSE <<>>)
    ELSE IF t[1] = " "
         THEN (IF word # <<>> THEN <<word>> ELSE <<>>) \o SplitWhitespace(Tail(t), <<>>)
         ELSE SplitWhitespace(Tail(t), Append(word, t[1]))

\* The Text a preview shows is known by the file it was made of and by the
\* way it was made (rendered by render_markdown, or converted to HTML by the
\* hp command). m.md holds "# Title\n\nHello **world**.", which renders to
\* four Lines; a holds one paragraph of 65539 lines, which the hp command
\* converts to 65539 lines of HTML.
PreviewContent(p, html) ==
    [of |-> p, html |-> html, height |-> IF html THEN 65539 ELSE 4]

\* PreviewState::new and the PreviewState of the hp command: scroll 0
NewPreview(p, html) == [content |-> PreviewContent(p, html), scroll |-> 0, title |-> p]

\* u16: x as u16, and saturating_add(1)
AsU16(x) == x % 65536
SatInc16(x) == IF x < 65535 THEN x + 1 ELSE x

\* PreviewState::scroll_up and PreviewState::scroll_down
ScrollUp(st) == [st EXCEPT !.scroll = SatSub(@, 1)]
ScrollDown(st, frame) ==
    LET max_scroll == AsU16(SatSub(st.content.height, frame)) IN
    IF st.scroll < max_scroll THEN [st EXCEPT !.scroll = SatInc16(@)] ELSE st

\* the state of run while render_markdown is looked at on its own
RunIdle ==
    /\ mode = "Explorer"
    /\ explorer_state = [ current_path |-> HomePath, entries |-> <<>>, selected |-> None,
                          error_message |-> None, command_input |-> <<>>,
                          in_command_mode |-> FALSE ]
    /\ preview_state = None
    /\ run_result = "idle"
    /\ fs = [p \in Nodes |-> "ok"]
    /\ fs_changes = 0
    /\ frame_height = 1

(***************************************************************************)
(* render_markdown                                                         *)
(***************************************************************************)
\* Flushed without the test for an empty pending line
FlushedAlways(ls, cs) == Append(ls, cs)

\* Flushed joining the pending line to the last Line of the document
FlushedMerging(ls, cs) ==
    IF ls # <<>> /\ cs # <<>> THEN [ls EXCEPT ![Len(ls)] = @ \o cs] ELSE (IF cs # <<>> THEN Append(ls, cs) ELSE ls)

\* if !current_spans.is_empty() { lines.push(Line::from(take(&mut current_spans))) }
Flushed(ls, cs) == IF cs # <<>> THEN Append(ls, cs) ELSE ls

\* *style_stack.last().unwrap_or(&Style::default())
CurrentStyle == IF style_stack = <<>> THEN StyleDefault ELSE style_stack[Len(style_stack)]

\* Vec::pop: the vector without its last element; an empty vector stays empty
Pop(stack) == IF stack = <<>> THEN stack ELSE SubSeq(stack, 1, Len(stack) - 1)

\* HeadingStyle without .add_modifier(Modifier::BOLD)
HeadingStyleNoBold(level) ==
    LET base_style == Fg(StyleDefault, theme.heading) IN
    IF level >= 3 THEN AddModifier(base_style, "DIM") ELSE base_style

\* HeadingStyle without the dim modifier of the levels from 3 on
HeadingStyleNoDim(level) == Fg(AddModifier(StyleDefault, "BOLD"), theme.heading)

\* the style pushed on heading-open (HeadingLevel::H3 is level 3)
HeadingStyle(level) ==
    LET base_style == Fg(AddModifier(StyleDefault, "BOLD"), theme.heading) IN
    IF level >= 3 THEN AddModifier(base_style, "DIM") ELSE base_style

\* list_stack.push(start_num.unwrap_or(1))
ListEntry(start_num) == IF start_num = None THEN U64Of(1) ELSE start_num[1]

\* NextNumber without the increment
NextNumberStuck(num) == num

\* *num += 1 where it does not abort: at u64::MAX the sum wraps to 0 in a
\* build without overflow checks (the build with them aborts, StartItemPanic)
NextNumber(num) == IF num = U64Max THEN U64Of(0) ELSE U64Inc(num)

\* the marker of an item: the number of the innermost list, the bullet when no
\* list is open
ItemMarker(stack) ==
    IF stack # <<>> THEN NumberMarker(stack[Len(stack)]) ELSE BulletMarker

\* list_stack after the marker was taken
ItemCounted(stack) ==
    IF stack # <<>> THEN [stack EXCEPT ![Len(stack)] = NextNumber(@)] ELSE stack

\* the spans an item opens its line with
ItemSpans(stack) ==
    << Raw(Indent(Len(stack))),
       Styled(ItemMarker(stack), Fg(StyleDefault, theme.comment)) >>

\* CodeLines without .fg(theme.fg)
CodeLinesPlain(text, style) ==
    LET ls == TextLines(text) IN
    [i \in 1..Len(ls) |-> <<BorderSpan, Styled(ls[i], style)>>]

\* CodeLines without the split into lines
CodeLinesUnsplit(text, style) == << <<BorderSpan, Styled(text, Fg(style, theme.fg))>> >>

\* the Lines of a text event inside a code block
CodeLines(text, style) ==
    LET ls == TextLines(text) IN
    [i \in 1..Len(ls) |-> <<BorderSpan, Styled(ls[i], Fg(style, theme.fg))>>]

\* SplitLoop without the flush of the pending line at the placeholder
RECURSIVE SplitLoopNoFlush(_, _, _, _, _, _)
SplitLoopNoFlush(text, br_placeholder, final_style, last_pos, ls, cs) ==
    LET absolute_pos == Find(text, br_placeholder, last_pos) IN
    IF absolute_pos = 0 THEN
        LET remaining == SubSeq(text, last_pos, Len(text)) IN
        [ lines |-> ls,
          spans |-> IF remaining # <<>> THEN Append(cs, Styled(remaining, final_style))
                    ELSE cs ]
    ELSE
        LET before == SubSeq(text, last_pos, absolute_pos - 1)
            cs1 == IF before # <<>> THEN Append(cs, Styled(before, final_style)) ELSE cs
        IN  SplitLoopNoFlush(text, br_placeholder, final_style,
                             absolute_pos + Len(br_placeholder), ls, cs1)

\* the while loop splitting a text at the placeholder, from last_pos on:
\* the lines and the pending line it leaves
RECURSIVE SplitLoop(_, _, _, _, _, _)
SplitLoop(text, br_placeholder, final_style, last_pos, ls, cs) ==
    LET absolute_pos == Find(text, br_placeholder, last_pos) IN
    IF absolute_pos = 0 THEN
        LET remaining == SubSeq(text, last_pos, Len(text)) IN
        [ lines |-> ls,
          spans |-> IF remaining # <<>> THEN Append(cs, Styled(remaining, final_style))
                    ELSE cs ]
    ELSE
        LET before == SubSeq(text, last_pos, absolute_pos - 1)
            cs1 == IF before # <<>> THEN Append(cs, Styled(before, final_style)) ELSE cs
        IN  SplitLoop(text, br_placeholder, final_style,
                      absolute_pos + Len(br_placeholder),
                      Flushed(ls, cs1), <<>>)

\* InlineText without the split at the placeholder
InlineTextUnsplit(text, br_placeholder, final_style, ls, cs) ==
    [lines |-> ls, spans |-> Append(cs, Styled(text, final_style))]

\* a text event outside a code block
InlineText(text, br_placeholder, final_style, ls, cs) ==
    IF br_placeholder # <<>> /\ Contains(text, br_placeholder)
    THEN SplitLoop(text, br_placeholder, final_style, 1, ls, cs)
    ELSE [lines |-> ls, spans |-> Append(cs, Styled(text, final_style))]

\* FinalStyle without the header's bold
FinalStyleNoHeader(style, header) == style

\* let final_style = if in_table_header { style.add_modifier(BOLD) } else { style }
FinalStyle(style, header) == IF header THEN AddModifier(style, "BOLD") ELSE style

Init ==
    /\ lines = <<>>
    /\ current_spans = <<>>
    /\ style_stack = <<BaselineStyle>>
    /\ list_stack = <<>>
    /\ table_alignments = <<>>
    /\ in_table_header = FALSE
    /\ in_code_block = FALSE
    /\ pc = "loop"
    /\ family \in Families
    /\ n = 0
    /\ open = <<>>
    /\ wellFormed = TRUE
    /\ last = NoEvent
    /\ RunIdle

\* ---- MarkdownEvent::Start(tag) ----
StartHeading ==
    \E ev \in Offered :
        /\ ev.k = "Start" /\ ev.tag = "Heading"
        /\ lines' = Append(Flushed(lines, current_spans), BlankLine)
        /\ current_spans' = <<>>
        /\ style_stack' = Append(style_stack, HeadingStyle(ev.level))
        /\ UNCHANGED <<list_stack, table_alignments, in_table_header, in_code_block>>
        /\ Deliver(ev)

StartBlockQuote ==
    \E ev \in Offered :
        /\ ev.k = "Start" /\ ev.tag = "BlockQuote"
        /\ lines' = Flushed(lines, current_spans)
        /\ current_spans' =
              << Styled(<<QuoteBar>>, Fg(StyleDefault, theme.quote_border)), Raw(<<" ">>) >>
        /\ style_stack' = Append(style_stack, Fg(StyleDefault, theme.quote_fg))
        /\ UNCHANGED <<list_stack, table_alignments, in_table_header, in_code_block>>
        /\ Deliver(ev)

StartCodeBlock ==
    \E ev \in Offered :
        /\ ev.k = "Start" /\ ev.tag = "CodeBlock"
        /\ lines' = Append(Append(Flushed(lines, current_spans), BlankLine),
                           CodeHeaderLine(IF ev.indented THEN <<>> ELSE ev.lang))
        /\ current_spans' = <<>>
        /\ in_code_block' = TRUE
        /\ style_stack' = Append(style_stack, Bg(StyleDefault, theme.code_bg))
        /\ UNCHANGED <<list_stack, table_alignments, in_table_header>>
        /\ Deliver(ev)

StartTable ==
    \E ev \in Offered :
        /\ ev.k = "Start" /\ ev.tag = "Table"
        /\ lines' = Flushed(lines, current_spans)
        /\ current_spans' = <<>>
        /\ table_alignments' = ev.aligns
        /\ UNCHANGED <<style_stack, list_stack, in_table_header, in_code_block>>
        /\ Deliver(ev)

StartTableHead ==
    \E ev \in Offered :
        /\ ev.k = "Start" /\ ev.tag = "TableHead"
        /\ in_table_header' = TRUE
        /\ UNCHANGED <<lines, current_spans, style_stack, list_stack,
                       table_alignments, in_code_block>>
        /\ Deliver(ev)

StartTableRow ==
    \E ev \in Offered :
        /\ ev.k = "Start" /\ ev.tag = "TableRow"
        /\ current_spans' = Append(current_spans, BorderSpan)
        /\ UNCHANGED <<lines, style_stack, list_stack, table_alignments,
                       in_table_header, in_code_block>>
        /\ Deliver(ev)

StartTableCell ==
    \E ev \in Offered :
        /\ ev.k = "Start" /\ ev.tag = "TableCell"
        /\ UNCHANGED renderVars
        /\ Deliver(ev)

StartList ==
    \E ev \in Offered :
        /\ ev.k = "Start" /\ ev.tag = "List"
        /\ lines' = Flushed(lines, current_spans)
        /\ current_spans' = <<>>
        /\ list_stack' = Append(list_stack, ListEntry(ev.start))
        /\ UNCHANGED <<style_stack, table_alignments, in_table_header, in_code_block>>
        /\ Deliver(ev)

StartItem ==
    \E ev \in Offered :
        /\ ev.k = "Start" /\ ev.tag = "Item"
        /\ lines' = Flushed(lines, current_spans)
        /\ current_spans' = ItemSpans(list_stack)
        /\ list_stack' = ItemCounted(list_stack)
        /\ UNCHANGED <<style_stack, table_alignments, in_table_header, in_code_block>>
        /\ Deliver(ev)

\* Start(Item) in a build with overflow checks when the innermost counter is
\* u64::MAX: `*num += 1` aborts the process after the flush and the format!
StartItemPanic ==
    \E ev \in Offered :
        /\ ev.k = "Start" /\ ev.tag = "Item"
        /\ list_stack # <<>> /\ list_stack[Len(list_stack)] = U64Max
        /\ lines' = Flushed(lines, current_spans)
        /\ current_spans' = <<>>
        /\ pc' = "panic"
        /\ n' = n + 1
        /\ last' = ev
        /\ open' = NextOpen(ev)
        /\ wellFormed' = (wellFormed /\ Matches(ev))
        /\ UNCHANGED <<style_stack, list_stack, table_alignments, in_table_header,
                       in_code_block, family>>
        /\ UNCHANGED runVars

StartEmphasis ==
    \E ev \in Offered :
        /\ ev.k = "Start" /\ ev.tag = "Emphasis"
        /\ style_stack' = Append(style_stack, AddModifier(CurrentStyle, "ITALIC"))
        /\ UNCHANGED <<lines, current_spans, list_stack, table_alignments,
                       in_table_header, in_code_block>>
        /\ Deliver(ev)

StartStrong ==
    \E ev \in Offered :
        /\ ev.k = "Start" /\ ev.tag = "Strong"
        /\ style_stack' = Append(style_stack, AddModifier(CurrentStyle, "BOLD"))
        /\ UNCHANGED <<lines, current_spans, list_stack, table_alignments,
                       in_table_header, in_code_block>>
        /\ Deliver(ev)

StartStrikethrough ==
    \E ev \in Offered :
        /\ ev.k = "Start" /\ ev.tag = "Strikethrough"
        /\ style_stack' = Append(style_stack, AddModifier(CurrentStyle, "CROSSED_OUT"))
        /\ UNCHANGED <<lines, current_spans, list_stack, table_alignments,
                       in_table_header, in_code_block>>
        /\ Deliver(ev)

StartLink ==
    \E ev \in Offered :
        /\ ev.k = "Start" /\ ev.tag = "Link"
        /\ style_stack' =
              Append(style_stack, AddModifier(Fg(StyleDefault, theme.link), "UNDERLINED"))
        /\ UNCHANGED <<lines, current_spans, list_stack, table_alignments,
                       in_table_header, in_code_block>>
        /\ Deliver(ev)

\* Start of every other tag (Paragraph, Image, ...): `_ => {}`
StartOther ==
    \E ev \in Offered :
        /\ ev.k = "Start" /\ ev.tag \in {"Paragraph", "Image"}
        /\ UNCHANGED renderVars
        /\ Deliver(ev)

\* ---- MarkdownEvent::End(tag) ----
\* TagEnd::Heading(_) | TagEnd::BlockQuote | TagEnd::Item
EndHeadingQuoteItem ==
    \E ev \in Offered :
        /\ ev.k = "End" /\ ev.tag \in {"Heading", "BlockQuote", "Item"}
        /\ lines' = Flushed(lines, current_spans)
        /\ current_spans' = <<>>
        /\ style_stack' = Pop(style_stack)
        /\ UNCHANGED <<list_stack, table_alignments, in_table_header, in_code_block>>
        /\ Deliver(ev)

EndCodeBlock ==
    \E ev \in Offered :
        /\ ev.k = "End" /\ ev.tag = "CodeBlock"
        /\ in_code_block' = FALSE
        /\ lines' = Append(Append(lines, CodeFooterLine), BlankLine)
        /\ style_stack' = Pop(style_stack)
        /\ UNCHANGED <<current_spans, list_stack, table_alignments, in_table_header>>
        /\ Deliver(ev)

EndTable ==
    \E ev \in Offered :
        /\ ev.k = "End" /\ ev.tag = "Table"
        /\ table_alignments' = <<>>
        /\ lines' = Append(lines, BlankLine)
        /\ UNCHANGED <<current_spans, style_stack, list_stack, in_table_header,
                       in_code_block>>
        /\ Deliver(ev)

EndTableHead ==
    \E ev \in Offered :
        /\ ev.k = "End" /\ ev.tag = "TableHead"
        /\ in_table_header' = FALSE
        /\ UNCHANGED <<lines, current_spans, style_stack, list_stack,
                       table_alignments, in_code_block>>
        /\ Deliver(ev)

EndTableRow ==
    \E ev \in Offered :
        /\ ev.k = "End" /\ ev.tag = "TableRow"
        /\ lines' = Flushed(lines, current_spans)
        /\ current_spans' = <<>>
        /\ UNCHANGED <<style_stack, list_stack, table_alignments, in_table_header,
                       in_code_block>>
        /\ Deliver(ev)

EndTableCell ==
    \E ev \in Offered :
        /\ ev.k = "End" /\ ev.tag = "TableCell"
        /\ current_spans' = Append(current_spans, CellSeparator)
        /\ UNCHANGED <<lines, style_stack, list_stack, table_alignments,
                       in_table_header, in_code_block>>
        /\ Deliver(ev)

EndList ==
    \E ev \in Offered :
        /\ ev.k = "End" /\ ev.tag = "List"
        /\ list_stack' = Pop(list_stack)
        /\ lines' = Append(lines, BlankLine)
        /\ UNCHANGED <<current_spans, style_stack, table_alignments, in_table_header,
                       in_code_block>>
        /\ Deliver(ev)

EndParagraph ==
    \E ev \in Offered :
        /\ ev.k = "End" /\ ev.tag = "Paragraph"
        /\ lines' = Append(Flushed(lines, current_spans), BlankLine)
        /\ current_spans' = <<>>
        /\ UNCHANGED <<style_stack, list_stack, table_alignments, in_table_header,
                       in_code_block>>
        /\ Deliver(ev)

\* TagEnd::Emphasis | TagEnd::Strong | TagEnd::Strikethrough | TagEnd::Link
EndInline ==
    \E ev \in Offered :
        /\ ev.k = "End" /\ ev.tag \in {"Emphasis", "Strong", "Strikethrough", "Link"}
        /\ style_stack' = Pop(style_stack)
        /\ UNCHANGED <<lines, current_spans, list_stack, table_alignments,
                       in_table_header, in_code_block>>
        /\ Deliver(ev)

\* End of every other tag (Image, ...): `_ => {}`
EndOther ==
    \E ev \in Offered :
        /\ ev.k = "End" /\ ev.tag = "Image"
        /\ UNCHANGED renderVars
        /\ Deliver(ev)

\* ---- leaf events ----
\* MarkdownEvent::Text inside a code block
TextInCode ==
    \E ev \in Offered :
        /\ ev.k = "Text" /\ in_code_block
        /\ lines' = lines \o CodeLines(ev.text, CurrentStyle)
        /\ UNCHANGED <<current_spans, style_stack, list_stack, table_alignments,
                       in_table_header, in_code_block>>
        /\ Deliver(ev)

\* MarkdownEvent::Text outside a code block
TextInline ==
    \E ev \in Offered :
        /\ ev.k = "Text" /\ ~in_code_block
        /\ LET r == InlineText(ev.text, placeholder,
                               FinalStyle(CurrentStyle, in_table_header),
                               lines, current_spans)
           IN  lines' = r.lines /\ current_spans' = r.spans
        /\ UNCHANGED <<style_stack, list_stack, table_alignments, in_table_header,
                       in_code_block>>
        /\ Deliver(ev)

Html ==
    \E ev \in Offered :
        /\ ev.k = "Html"
        /\ current_spans' =
              Append(current_spans, Styled(ev.text, Fg(StyleDefault, theme.comment)))
        /\ UNCHANGED <<lines, style_stack, list_stack, table_alignments,
                       in_table_header, in_code_block>>
        /\ Deliver(ev)

\* MarkdownEvent::Code: format!(" {} ", text)
Code ==
    \E ev \in Offered :
        /\ ev.k = "Code"
        /\ current_spans' =
              Append(current_spans,
                     Styled(<<" ">> \o ev.text \o <<" ">>,
                            Bg(Fg(StyleDefault, theme.fg), theme.inline_code_bg)))
        /\ UNCHANGED <<lines, style_stack, list_stack, table_alignments,
                       in_table_header, in_code_block>>
        /\ Deliver(ev)

HardBreak ==
    \E ev \in Offered :
        /\ ev.k = "HardBreak"
        /\ lines' = Flushed(lines, current_spans)
        /\ current_spans' = <<>>
        /\ UNCHANGED <<style_stack, list_stack, table_alignments, in_table_header,
                       in_code_block>>
        /\ Deliver(ev)

SoftBreak ==
    \E ev \in Offered :
        /\ ev.k = "SoftBreak"
        /\ current_spans' = Append(current_spans, Raw(<<" ">>))
        /\ UNCHANGED <<lines, style_stack, list_stack, table_alignments,
                       in_table_header, in_code_block>>
        /\ Deliver(ev)

Rule ==
    \E ev \in Offered :
        /\ ev.k = "Rule"
        /\ lines' = Append(Append(Flushed(lines, current_spans), RuleLine), BlankLine)
        /\ current_spans' = <<>>
        /\ UNCHANGED <<style_stack, list_stack, table_alignments, in_table_header,
                       in_code_block>>
        /\ Deliver(ev)

\* every other event (InlineHtml, FootnoteReference, TaskListMarker, ...): `_ => {}`
OtherEvent ==
    \E ev \in Offered :
        /\ ev.k = "Other"
        /\ UNCHANGED renderVars
        /\ Deliver(ev)

\* the stream is exhausted: the final flush, and Text::from(lines)
Finish ==
    /\ pc = "loop"
    /\ StreamEnds
    /\ lines' = Flushed(lines, current_spans)
    /\ current_spans' = <<>>
    /\ pc' = "done"
    /\ wellFormed' = (wellFormed /\ open = <<>>)
    /\ UNCHANGED <<style_stack, list_stack, table_alignments, in_table_header,
                   in_code_block, family, n, open, last>>
    /\ UNCHANGED runVars

Next ==
    \/ StartHeading \/ StartBlockQuote \/ StartCodeBlock \/ StartTable
    \/ StartTableHead \/ StartTableRow \/ StartTableCell \/ StartList \/ StartItem
    \/ StartItemPanic
    \/ StartEmphasis \/ StartStrong \/ StartStrikethrough \/ StartLink \/ StartOther
    \/ EndHeadingQuoteItem \/ EndCodeBlock \/ EndTable \/ EndTableHead
    \/ EndTableRow \/ EndTableCell \/ EndList \/ EndParagraph \/ EndInline
    \/ EndOther
    \/ TextInCode \/ TextInline \/ Html \/ Code \/ HardBreak \/ SoftBreak \/ Rule
    \/ OtherEvent
    \/ Finish

Spec == Init /\ [][Next]_vars

(***************************************************************************)
(* run: the interactive loop                                               *)
(***************************************************************************)
\* the texts typed in command mode, character by character
TypedCommands ==
    { <<"q">>, <<" ", "q", " ">>, <<"h", "p", " ", "a">>, <<"h", "p", " ", "x">>, <<"w">> }

IsTyped(t) == \E c \in TypedCommands : Len(t) <= Len(c) /\ SubSeq(c, 1, Len(t)) = t

\* the heights the terminal takes
FrameHeights == {1, 3}

\* render_markdown is not running
RenderIdle ==
    /\ lines = <<>>
    /\ current_spans = <<>>
    /\ style_stack = <<>>
    /\ list_stack = <<>>
    /\ table_alignments = <<>>
    /\ in_table_header = FALSE
    /\ in_code_block = FALSE
    /\ pc = "idle"
    /\ family = "none"
    /\ n = 0
    /\ open = <<>>
    /\ wellFormed = TRUE
    /\ last = NoEvent

\* run up to its loop: mode Explorer, ExplorerState::new() in the directory d
\* with every path as created, no preview
InitRun ==
    /\ RenderIdle
    /\ fs = [p \in Nodes |-> "ok"]
    /\ fs_changes = 0
    /\ mode = "Explorer"
    /\ explorer_state =
          LoadEntries([ current_path |-> HomePath, entries |-> <<>>, selected |-> None,
                        error_message |-> None, command_input |-> <<>>,
                        in_command_mode |-> FALSE ]).state
    /\ preview_state = None
    /\ run_result = "running"
    /\ frame_height \in FrameHeights

\* a key press is handled in the loop; the renderer's variables are not touched
KeyPress == run_result = "running" /\ UNCHANGED <<renderVars, tokenizerVars>>

\* ---- AppMode::Preview ----
InPreview == mode = "Preview" /\ preview_state # None

PreviewQuit ==
    /\ KeyPress /\ InPreview
    /\ preview_state' = None
    /\ mode' = "Explorer"
    /\ UNCHANGED <<explorer_state, run_result, fs, fs_changes, frame_height>>

PreviewScrollUp ==
    /\ KeyPress /\ InPreview
    /\ preview_state' = Some(ScrollUp(preview_state[1]))
    /\ UNCHANGED <<mode, explorer_state, run_result, fs, fs_changes, frame_height>>

PreviewScrollDown ==
    /\ KeyPress /\ InPreview
    /\ preview_state' = Some(ScrollDown(preview_state[1], frame_height))
    /\ UNCHANGED <<mode, explorer_state, run_result, fs, fs_changes, frame_height>>

\* ---- AppMode::Explorer, command mode ----
InCommandMode == mode = "Explorer" /\ explorer_state.in_command_mode

CommandChar ==
    /\ KeyPress /\ InCommandMode
    /\ \E c \in {" ", "a", "h", "p", "q", "w", "x"} :
          /\ IsTyped(Append(explorer_state.command_input, c))
          /\ explorer_state' = [explorer_state EXCEPT !.command_input = Append(@, c)]
    /\ UNCHANGED <<mode, preview_state, run_result, fs, fs_changes, frame_height>>

CommandBackspace ==
    /\ KeyPress /\ InCommandMode
    /\ explorer_state' = [explorer_state EXCEPT !.command_input = Pop(@)]
    /\ UNCHANGED <<mode, preview_state, run_result, fs, fs_changes, frame_height>>

CommandEsc ==
    /\ KeyPress /\ InCommandMode
    /\ explorer_state' =
          [explorer_state EXCEPT !.command_input = <<>>, !.in_command_mode = FALSE]
    /\ UNCHANGED <<mode, preview_state, run_result, fs, fs_changes, frame_height>>

\* Enter in command mode: the command text, its words, and the explorer after
\* the input was taken
CommandText == Trim(explorer_state.command_input)
Parts == SplitWhitespace(CommandText, <<>>)
\* CommandTaken without command_input.clear()
CommandTakenKeepInput ==
    [explorer_state EXCEPT !.in_command_mode = FALSE, !.error_message = None]

CommandTaken ==
    [explorer_state EXCEPT !.command_input = <<>>, !.in_command_mode = FALSE,
                           !.error_message = None]

\* ["q"]: return Err("quit")
CommandEnterQuit ==
    /\ KeyPress /\ InCommandMode
    /\ Parts = << <<"q">> >>
    /\ explorer_state' = CommandTaken
    /\ run_result' = "quit"
    /\ UNCHANGED <<mode, preview_state, fs, fs_changes, frame_height>>

\* ["hp", filename]
CommandEnterHp ==
    /\ KeyPress /\ InCommandMode
    /\ Len(Parts) = 2 /\ Parts[1] = <<"h", "p">>
    /\ LET filename == Parts[2]
           file_path == Append(explorer_state.current_path, filename) IN
       IF ~IsFile(file_path) THEN
           /\ explorer_state' =
                 [CommandTaken EXCEPT !.error_message = Message("file not found", filename)]
           /\ UNCHANGED <<mode, preview_state>>
       ELSE IF CanReadFile(file_path) THEN
           /\ explorer_state' = CommandTaken
           /\ preview_state' = Some(NewPreview(file_path, TRUE))
           /\ mode' = "Preview"
       ELSE
           /\ explorer_state' =
                 [CommandTaken EXCEPT !.error_message = Message("read error", file_path)]
           /\ UNCHANGED <<mode, preview_state>>
    /\ UNCHANGED <<run_result, fs, fs_changes, frame_height>>

\* []: ignored; anything else: unknown command
CommandEnterOther ==
    /\ KeyPress /\ InCommandMode
    /\ Parts # << <<"q">> >>
    /\ ~(Len(Parts) = 2 /\ Parts[1] = <<"h", "p">>)
    /\ explorer_state' =
          IF Parts = <<>> THEN CommandTaken
          ELSE [CommandTaken EXCEPT !.error_message = Message("unknown command", CommandText)]
    /\ UNCHANGED <<mode, preview_state, run_result, fs, fs_changes, frame_height>>

\* ---- AppMode::Explorer, the list ----
InList == mode = "Explorer" /\ ~explorer_state.in_command_mode

\* explorer_state.error_message = None, before the key is looked at
Cleared == [explorer_state EXCEPT !.error_message = None]

KeyColon ==
    /\ KeyPress /\ InList
    /\ explorer_state' = [Cleared EXCEPT !.in_command_mode = TRUE]
    /\ UNCHANGED <<mode, preview_state, run_result, fs, fs_changes, frame_height>>

KeyDown ==
    /\ KeyPress /\ InList
    /\ explorer_state' = [Cleared EXCEPT !.selected = NextSelected(explorer_state)]
    /\ UNCHANGED <<mode, preview_state, run_result, fs, fs_changes, frame_height>>

KeyUp ==
    /\ KeyPress /\ InList
    /\ explorer_state' = [Cleared EXCEPT !.selected = PreviousSelected(explorer_state)]
    /\ UNCHANGED <<mode, preview_state, run_result, fs, fs_changes, frame_height>>

\* Left, 'h' or Backspace: to the parent directory; the `?` after
\* load_entries returns its error from run, current_path being set already
KeyLeft ==
    /\ KeyPress /\ InList
    /\ LET parent == PathParent(explorer_state.current_path) IN
       IF parent = None THEN
           /\ explorer_state' = Cleared
           /\ UNCHANGED run_result
       ELSE
           LET loaded == LoadEntries([Cleared EXCEPT !.current_path = parent[1]]) IN
           /\ explorer_state' = loaded.state
           /\ run_result' = IF loaded.ok THEN run_result ELSE "error"
    /\ UNCHANGED <<mode, preview_state, fs, fs_changes, frame_height>>

\* Enter on the selected entry: into a directory, or the preview of a file
KeyEnter ==
    /\ KeyPress /\ InList
    /\ IF explorer_state.selected = None
          \/ explorer_state.selected[1] >= Len(explorer_state.entries)
       THEN /\ explorer_state' = Cleared
            /\ UNCHANGED <<mode, preview_state, run_result>>
       ELSE
         LET selected_path == explorer_state.entries[explorer_state.selected[1] + 1] IN
         IF IsDir(selected_path) THEN
             \* dunce::canonicalize(selected_path)?, then load_entries()?
             IF ~Exists(selected_path) THEN
                 /\ explorer_state' = Cleared
                 /\ run_result' = "error"
                 /\ UNCHANGED <<mode, preview_state>>
             ELSE
                 LET loaded == LoadEntries([Cleared EXCEPT !.current_path = selected_path]) IN
                 /\ explorer_state' = loaded.state
                 /\ run_result' = IF loaded.ok THEN run_result ELSE "error"
                 /\ UNCHANGED <<mode, preview_state>>
         ELSE IF Extension(selected_path) = Some(<<"m", "d">>) THEN
             IF CanReadFile(selected_path) THEN
                 /\ explorer_state' = Cleared
                 /\ preview_state' = Some(NewPreview(selected_path, FALSE))
                 /\ mode' = "Preview"
                 /\ UNCHANGED run_result
             ELSE
                 /\ explorer_state' =
                       [Cleared EXCEPT !.error_message = Message("cannot open preview", selected_path)]
                 /\ UNCHANGED <<mode, preview_state, run_result>>
         ELSE
             /\ explorer_state' =
                   [Cleared EXCEPT !.error_message = Message("not a markdown file", <<>>)]
             /\ UNCHANGED <<mode, preview_state, run_result>>
    /\ UNCHANGED <<fs, fs_changes, frame_height>>

\* any other key in the list: only the error message is cleared
KeyOther ==
    /\ KeyPress /\ InList
    /\ explorer_state' = Cleared
    /\ UNCHANGED <<mode, preview_state, run_result, fs, fs_changes, frame_height>>

\* ---- the world outside ----
\* another process changes the condition of a path between two key presses
FsChange ==
    /\ KeyPress
    /\ fs_changes < MaxFsChanges
    /\ \E p \in Nodes : \E c \in Conditions(p) \ {fs[p]} : fs' = [fs EXCEPT ![p] = c]
    /\ fs_changes' = fs_changes + 1
    /\ UNCHANGED <<mode, explorer_state, preview_state, run_result, frame_height>>

\* the terminal is resized
Resize ==
    /\ KeyPress
    /\ frame_height' \in FrameHeights \ {frame_height}
    /\ UNCHANGED <<mode, explorer_state, preview_state, run_result, fs, fs_changes>>

NextRun ==
    \/ PreviewQuit \/ PreviewScrollUp \/ PreviewScrollDown
    \/ CommandChar \/ CommandBackspace \/ CommandEsc
    \/ CommandEnterQuit \/ CommandEnterHp \/ CommandEnterOther
    \/ KeyColon \/ KeyDown \/ KeyUp \/ KeyLeft \/ KeyEnter \/ KeyOther
    \/ FsChange \/ Resize

SpecRun == InitRun /\ [][NextRun]_vars


(***************************************************************************)
(* Properties                                                              *)
(***************************************************************************)
\* the Spans of a sequence of Lines, in display order
RECURSIVE Flatten(_)
Flatten(ls) == IF ls = <<>> THEN <<>> ELSE ls[1] \o Flatten(Tail(ls))

\* every Span produced so far: the document's, then the pending line's
AllSpans == Flatten(lines) \o current_spans

\* the last event opened the tag
Opened(tag) == last.k = "Start" /\ last.tag = tag

\* the last event closed the tag
Closed(tag) == last.k = "End" /\ last.tag = tag

\* the entry of the tag that encloses the innermost open tag
Parent == IF Len(open) >= 2 THEN open[Len(open) - 1] ELSE DocEntry

\* an Item was just opened directly inside a List, in a well-formed stream
ItemOpenedInList == Opened("Item") /\ wellFormed /\ Parent.ev.tag = "List"

\* C1: after the last event of a well-formed stream the style stack holds
\* exactly its baseline entry, the list stack and the alignment sequence are
\* empty and the header flag is false.  Stated for the streams of the
\* tokenizer's shape (lists of items, tables, code blocks, the two documents).
C1_StackBalance ==
    (pc = "done" /\ wellFormed /\ family # "any") =>
        /\ style_stack = <<BaselineStyle>>
        /\ list_stack = <<>>
        /\ table_alignments = <<>>
        /\ in_table_header = FALSE

\* C2: after any sequence of events the style stack holds at least one entry.
C2_DepthAtLeastOne == Len(style_stack) >= 1

\* C3: the k-th item opened directly in an ordered list that started at N
\* gets the marker "N+k-1. ", whatever lists were opened and closed inside the
\* items before it; a nested ordered list counts from its own start number.
\* (N + k - 1 is taken below u64::MAX, where the counter does not overflow.)
C3_OrderedNumbering ==
    (ItemOpenedInList /\ Parent.ev.start \notin {None, Some(U64Max)}) =>
        /\ Len(current_spans) = 2
        /\ current_spans[2].content =
              NumberMarker(U64Add(Parent.ev.start[1], Parent.items - 1))

\* C3 witness: the second item of a list that started at 9 is opened after a
\* nested list was opened and closed inside the first; its marker is "10. ".
C3_Witness ==
    /\ ItemOpenedInList
    /\ Len(open) = 2
    /\ Parent.ev.start = Some(U64Of(9))
    /\ Parent.items = 2
    /\ current_spans[2].content = <<"1", "0", ".", " ">>
    /\ \E i \in 1..Len(lines) :
          /\ Len(lines[i]) >= 2
          /\ lines[i][1].content = <<" ", " ">>
          /\ lines[i][2].content = <<"1", ".", " ">>

\* C4: on item-open the marker follows the kind of the innermost list: the
\* number of an ordered list, the bullet glyph and no number for an unordered
\* one.
C4_MarkerByListKind ==
    ItemOpenedInList =>
        /\ Len(current_spans) = 2
        /\ current_spans[2].content =
              IF Parent.ev.start = None THEN BulletMarker
              ELSE NumberMarker(U64Add(Parent.ev.start[1], Parent.items - 1))

\* the text event "a<br>b" of the file was just handled inside a table cell
InTableCell ==
    /\ Len(open) >= 3
    /\ open[Len(open)].ev.tag = "TableCell"
    /\ open[Len(open) - 1].ev.tag \in {"TableHead", "TableRow"}
    /\ open[Len(open) - 2].ev.tag = "Table"

BreakTextInCell ==
    /\ last.k = "Text" /\ last.src = TxtBreak
    /\ wellFormed /\ InTableCell
    /\ ~in_code_block

\* a Span that renders the break marker itself
IsBreakMarker(span) == span.content \in {BrLower, BrUpper, placeholder}

\* C5 as stated: for "a<br>b" in a table cell the output holds a Span "a",
\* then a distinctly styled break-marker Span, then a Span "b".
C5_BreakMarkerSpan ==
    BreakTextInCell =>
        \E i, j, k \in 1..Len(AllSpans) :
            /\ i < j /\ j < k
            /\ AllSpans[i].content = <<"a">>
            /\ IsBreakMarker(AllSpans[j])
            /\ AllSpans[j].style # AllSpans[i].style
            /\ AllSpans[k].content = <<"b">>

\* C5 amended: for "a<br>b" in a table cell the Span "a" ends the last Line of
\* the document and the Span "b", of the same style, is alone on the pending
\* line, with no Span between them: the break is rendered as a line break, not
\* as a marker Span, and neither text is lost.
C5_BreakFlushesLine ==
    BreakTextInCell =>
        /\ lines # <<>>
        /\ LET l == lines[Len(lines)] IN
              /\ l # <<>>
              /\ l[Len(l)].content = <<"a">>
              /\ current_spans = <<Styled(<<"b">>, l[Len(l)].style)>>

\* C5 witness: "a<br>b" was handled in the second cell of a body row.
C5_Witness ==
    /\ BreakTextInCell
    /\ Parent.ev.tag = "TableRow" /\ Parent.kids = 2
    /\ current_spans = <<Styled(<<"b">>, BaselineStyle)>>

\* the texts of the second Spans of the last k Lines of the document
LastCodeTexts(k) ==
    [i \in 1..k |-> LET l == lines[Len(lines) - k + i] IN
                    IF Len(l) = 2 THEN l[2].content ELSE <<"?">>]

\* C6: every line of a text inside a code block appears as the text Span of
\* one Line, character for character as it stands in the file, with no
\* modifier.
C6_CodeVerbatim ==
    (last.k = "Text" /\ in_code_block /\ family = "code") =>
        LET src == TextLines(last.src) IN
        /\ Len(lines) >= Len(src)
        /\ LastCodeTexts(Len(src)) = src
        /\ \A i \in 1..Len(src) :
              \A j \in 1..Len(lines[Len(lines) - Len(src) + i]) :
                  lines[Len(lines) - Len(src) + i][j].style.add = {}

\* the characters a border or separator Line is drawn with
BorderGlyphs == {VBar, HBar, CornerTop, CornerBottom, "+", "-", ":", "|", " "}

\* a Line drawn with border glyphs only
IsBorderLine(l) ==
    /\ l # <<>>
    /\ \A i \in 1..Len(l) :
          \A j \in 1..Len(l[i].content) : l[i].content[j] \in BorderGlyphs
    /\ \E i \in 1..Len(l) : \E j \in 1..Len(l[i].content) : l[i].content[j] # " "

\* the column segments of a border Line: its Spans that hold a horizontal glyph
Segments(l) ==
    Cardinality({i \in 1..Len(l) :
                    \E j \in 1..Len(l[i].content) : l[i].content[j] \in {HBar, "-"}})

\* C7: when the header of a table closes, the document holds the
\* header-separator Line, with one segment per recorded column alignment.
C7_SeparatorSegments ==
    (Closed("TableHead") /\ wellFormed /\ family = "table") =>
        \E i \in 1..Len(lines) :
            /\ IsBorderLine(lines[i])
            /\ Segments(lines[i]) = Len(table_alignments)

\* the spans of the two example documents
SpanTitle == Styled(<<"T", "i", "t", "l", "e">>, [fg |-> theme.heading, bg |-> "None", add |-> {"BOLD"}])
SpanHello == Styled(<<"H", "e", "l", "l", "o", " ">>, [fg |-> theme.fg, bg |-> "None", add |-> {}])
SpanWorld == Styled(<<"w", "o", "r", "l", "d">>, [fg |-> theme.fg, bg |-> "None", add |-> {"BOLD"}])
SpanDot == Styled(<<".">>, [fg |-> theme.fg, bg |-> "None", add |-> {}])

\* C8 as stated: the document of "# Title" and "Hello **world**." is a blank
\* Line, the Line "Title", a blank Line, the Line "Hello ", "world", ".".
C8_TitleDocAsStated ==
    (family = "title" /\ pc = "done") =>
        lines = << BlankLine, <<SpanTitle>>, BlankLine, <<SpanHello, SpanWorld, SpanDot>> >>

\* C8 amended: the document of "# Title" and "Hello **world**." is a blank
\* Line, the Line "Title" (one bold Span in the heading colour), the Line
\* "Hello ", bold "world", ".", and a blank Line: the blank Line follows the
\* paragraph, none separates the heading from it.
C8_TitleDoc ==
    (family = "title" /\ pc = "done") =>
        lines = << BlankLine, <<SpanTitle>>, <<SpanHello, SpanWorld, SpanDot>>, BlankLine >>

\* C8 witness: the example document has been rendered to its end.
C8_Witness == family = "title" /\ pc = "done" /\ n = Len(TitleDoc) /\ Len(lines) = 4

\* the texts of the Spans of a Line that are not border glyphs
RECURSIVE CellTextsOf(_)
CellTextsOf(l) ==
    IF l = <<>> THEN <<>>
    ELSE (IF IsBorderLine(<<l[1]>>) THEN <<>> ELSE <<l[1].content>>) \o CellTextsOf(Tail(l))

\* C9: the document of the two-column table is a top border Line, the header
\* row "A", "B" in bold, the separator Line of two columns, the data row "1",
\* "2", a bottom border Line and a blank Line; header cells and body cells
\* are never on the same Line.
C9_TableDoc ==
    (family = "tabledoc" /\ pc = "done") =>
        /\ Len(lines) = 6
        /\ IsBorderLine(lines[1])
        /\ CellTextsOf(lines[2]) = << <<"A">>, <<"B">> >>
        /\ \A i \in 1..Len(lines[2]) :
              ~IsBorderLine(<<lines[2][i]>>) => "BOLD" \in lines[2][i].style.add
        /\ IsBorderLine(lines[3]) /\ Segments(lines[3]) = 2
        /\ CellTextsOf(lines[4]) = << <<"1">>, <<"2">> >>
        /\ IsBorderLine(lines[5])
        /\ lines[6] = BlankLine
        /\ \A i \in 1..Len(lines) :
              LET texts == {CellTextsOf(lines[i])[j] : j \in 1..Len(CellTextsOf(lines[i]))}
              IN  ~(texts \cap {<<"A">>, <<"B">>} # {} /\ texts \cap {<<"1">>, <<"2">>} # {})

C13_FallbackIsBaseline ==
    ( /\ family # "any"
      /\ last = TextEv(TxtA)
      /\ ~in_code_block
      /\ style_stack = <<>> ) =>
        /\ current_spans # <<>>
        /\ current_spans[Len(current_spans)].style = FinalStyle(BaselineStyle, in_table_header)

\* a TableHead is open: the stream is between a table-head-open and its close
HeadOpen == \E i \in 1..Len(open) : open[i].ev.tag = "TableHead"

\* the Span a text event outside a code block has just produced
TextJustHandled == last.k = "Text" /\ ~in_code_block /\ current_spans # <<>>
LastSpan == current_spans[Len(current_spans)]

\* C14: on the table streams of the tokenizer the header flag is set exactly
\* while a TableHead is open (so it is false before the table, after
\* table-head-close and after table-close), the Span of a cell's text carries
\* the bold modifier exactly when the text lies in the TableHead, and the
\* alignment sequence is empty after table-close.
C14_HeaderBold ==
    (family \in {"table", "tabledoc"}) =>
        /\ in_table_header = HeadOpen
        /\ TextJustHandled =>
              LastSpan.style = (IF HeadOpen THEN AddModifier(BaselineStyle, "BOLD")
                                ELSE BaselineStyle)
        /\ Closed("Table") => (table_alignments = <<>> /\ ~in_table_header)

\* C14 witness: the text of a header cell was just rendered bold, in a table
\* whose alignments are recorded.
C14_Witness ==
    /\ family = "table"
    /\ HeadOpen
    /\ TextJustHandled
    /\ "BOLD" \in LastSpan.style.add
    /\ table_alignments = <<"Left", "Right", "Center">>

\* a text event inside a code block of the tokenizer's streams was just handled
CodeTextJustHandled == family = "code" /\ last.k = "Text" /\ in_code_block
\* the Span of the code text's last line
LastCodeSpan == lines[Len(lines)][2]

\* C15 as stated: the foreground of a code-content Span is the foreground of
\* the style that was active when the code block opened (the entry below the
\* code block's own entry).
C15_CodeFgInherited ==
    CodeTextJustHandled =>
        LastCodeSpan.style.fg = style_stack[Len(style_stack) - 1].fg

\* C15 amended: a code-content Span has the theme foreground and the code
\* background, whatever style was active when the code block opened.
C15_CodeFgTheme ==
    CodeTextJustHandled =>
        LastCodeSpan.style = [fg |-> theme.fg, bg |-> theme.code_bg, add |-> {}]

\* C15 witness: a code text rendered inside a block quote has the theme
\* foreground although the quote's foreground was active at code-block-open.
C15_Witness ==
    /\ CodeTextJustHandled
    /\ Len(open) = 2 /\ open[1].ev.tag = "BlockQuote"
    /\ style_stack[Len(style_stack) - 1].fg = theme.quote_fg
    /\ LastCodeSpan.style.fg = theme.fg

\* the number of lines of a text: its line feeds, and one more for an
\* unterminated last line
LineCount(t) ==
    Cardinality({i \in 1..Len(t) : t[i] = NL})
    + (IF t # <<>> /\ t[Len(t)] # NL THEN 1 ELSE 0)

\* the second Spans' texts of the Lines ls[from..], each followed by a line feed
RECURSIVE JoinFrom(_, _)
JoinFrom(ls, from) ==
    IF from > Len(ls) THEN <<>>
    ELSE (IF Len(ls[from]) = 2 THEN ls[from][2].content ELSE <<"?">>) \o <<NL>>
         \o JoinFrom(ls, from + 1)

\* a text with its last line terminated
Terminated(t) == IF t # <<>> /\ t[Len(t)] # NL THEN t \o <<NL>> ELSE t

\* C16: on the code streams of the tokenizer, code-block-open appends (after
\* the flush of the pending line) one blank Line and one header Line of two
\* Spans, corner glyph and language label, the label empty for indented code;
\* a text event with k lines appends exactly k Lines of two Spans, the
\* left-border glyph and the line's text, in order; code-block-close appends
\* the bottom-border Line and one blank Line; the open raises the style stack
\* depth by one, the texts keep it and the close lowers it by one.
C16_CodeBlockLines ==
    [][ (family = "code" /\ n' = n + 1 /\ last'.tag \in {"CodeBlock", ""}) =>
          LET added == SubSeq(lines', Len(lines) + 1, Len(lines'))
              base == Flushed(lines, current_spans)
              k == Len(lines') - Len(base) IN
          IF last'.k = "Start" THEN
              /\ k = 2 /\ SubSeq(lines', 1, Len(base)) = base
              /\ lines'[Len(base) + 1] = BlankLine
              /\ Len(lines'[Len(base) + 2]) = 2
              /\ lines'[Len(base) + 2][1].content[1] = CornerTop
              /\ lines'[Len(base) + 2][2].content =
                     (IF last'.indented THEN <<>> ELSE last'.lang)
              /\ Len(style_stack') = Len(style_stack) + 1
          ELSE IF last'.k = "Text" THEN
              /\ SubSeq(lines', 1, Len(lines)) = lines
              /\ Len(added) = LineCount(last'.text)
              /\ \A i \in 1..Len(added) :
                    Len(added[i]) = 2 /\ added[i][1].content = <<VBar, " ">>
              /\ JoinFrom(added, 1) = Terminated(last'.text)
              /\ style_stack' = style_stack
          ELSE
              /\ SubSeq(lines', 1, Len(lines)) = lines
              /\ Len(added) = 2
              /\ Len(added[1]) = 1 /\ added[1][1].content[1] = CornerBottom
              /\ added[2] = BlankLine
              /\ Len(style_stack') = Len(style_stack) - 1
      ]_vars

\* C16 witness: a fenced block with the one text "x\n<br>y\n" has closed:
\* blank, header with the label, two code Lines, bottom border, blank, and
\* the style stack is back at its depth of one.
C16_Witness ==
    /\ family = "code" /\ Closed("CodeBlock") /\ n = 3
    /\ Len(lines) = 6
    /\ lines[1] = BlankLine
    /\ lines[2][2].content = <<"r", "s">>
    /\ lines[3][2].content = <<"x">>
    /\ Len(lines[4]) = 2
    /\ lines[5][1].content[1] = CornerBottom
    /\ lines[6] = BlankLine
    /\ Len(style_stack) = 1

\* the non-empty segments of t between the occurrences of the placeholder, in
\* order: t is read character by character from i, acc being the segment
\* read so far
RECURSIVE SegmentsFrom(_, _, _)
SegmentsFrom(t, i, acc) ==
    IF i > Len(t) THEN (IF acc # <<>> THEN <<acc>> ELSE <<>>)
    ELSE IF MatchAt(t, placeholder, i)
         THEN (IF acc # <<>> THEN <<acc>> ELSE <<>>)
              \o SegmentsFrom(t, i + Len(placeholder), <<>>)
         ELSE SegmentsFrom(t, i + 1, Append(acc, t[i]))

\* the number of occurrences of the placeholder in t
Occurrences(t) == Cardinality({i \in 1..Len(t) : MatchAt(t, placeholder, i)})

\* C17: a text event outside a code block whose text holds the placeholder
\* k >= 1 times adds one Span per non-empty segment, in order and with the
\* active style, and nothing else; the first segment joins the pending line,
\* which is flushed, every further Line appended holds exactly one segment,
\* and at most the last segment is left pending: no two segments share a Line.
C17_SplitAtPlaceholder ==
    [][ ( /\ n' = n + 1 /\ last'.k = "Text" /\ ~in_code_block
          /\ Occurrences(last'.text) >= 1 ) =>
          LET segs == SegmentsFrom(last'.text, 1, <<>>)
              style == FinalStyle(CurrentStyle, in_table_header)
              added == SubSeq(lines', Len(lines) + 1, Len(lines')) IN
          /\ AllSpans' = AllSpans \o [i \in 1..Len(segs) |-> Styled(segs[i], style)]
          /\ SubSeq(lines', 1, Len(lines)) = lines
          /\ Len(current_spans') <= 1
          /\ added # <<>> => Len(added[1]) <= Len(current_spans) + 1
          /\ \A i \in 2..Len(added) : Len(added[i]) = 1
      ]_vars

\* C17 witness: in a paragraph with "a" pending the text "a<br><BR>b" was
\* handled: "a", "a" are flushed as one Line and "b" alone is pending.
C17_Witness ==
    /\ family = "inline"
    /\ last = TextEv(TxtTwoBreaks)
    /\ lines = << <<Styled(<<"a">>, BaselineStyle), Styled(<<"a">>, BaselineStyle)>> >>
    /\ current_spans = <<Styled(<<"b">>, BaselineStyle)>>

\* the variables of the style stack, the list stack and the table context
ContextVars == <<style_stack, list_stack, table_alignments, in_table_header>>

\* C18: paragraph-close moves the pending line, if it is not empty, to the
\* document and appends exactly one blank Line; HardBreak moves the pending
\* line, if it is not empty, to the document and appends nothing else;
\* SoftBreak appends one single-space Span to the pending line and no Line;
\* none of the three changes the style stack, the list stack or the table
\* context.
C18_LineEffects ==
    [][ (n' = n + 1) =>
          LET flushed == IF current_spans # <<>> THEN lines \o <<current_spans>> ELSE lines IN
          /\ (last'.k = "End" /\ last'.tag = "Paragraph") =>
                /\ lines' = flushed \o <<BlankLine>>
                /\ current_spans' = <<>>
                /\ UNCHANGED ContextVars
          /\ (last'.k = "HardBreak") =>
                /\ lines' = flushed
                /\ current_spans' = <<>>
                /\ UNCHANGED ContextVars
          /\ (last'.k = "SoftBreak") =>
                /\ lines' = lines
                /\ Len(current_spans') = Len(current_spans) + 1
                /\ SubSeq(current_spans', 1, Len(current_spans)) = current_spans
                /\ current_spans'[Len(current_spans')].content = <<" ">>
                /\ UNCHANGED ContextVars
      ]_vars

\* C18 witness: a paragraph "a", soft break, has closed: the Line of the text
\* and the single-space Span is followed by exactly one blank Line.
C18_Witness ==
    /\ family = "inline"
    /\ Closed("Paragraph")
    /\ n = 4
    /\ lines = << <<Styled(<<"a">>, BaselineStyle), Raw(<<" ">>)>>, BlankLine >>
    /\ current_spans = <<>>
    /\ style_stack = <<BaselineStyle>>

\* the style a heading-open has just pushed
HeadingOpened == Opened("Heading") /\ style_stack # <<>>
TopStyle == style_stack[Len(style_stack)]

\* C19 as stated: the colour pushed for a level-2 heading differs from the
\* colour of a level-1 heading, the colour of the levels from 3 on differs
\* from both and comes with the dim modifier, and every heading is bold.
C19_ColoursByLevel ==
    HeadingOpened =>
        /\ "BOLD" \in TopStyle.add
        /\ last.level = 2 => TopStyle.fg # HeadingStyle(1).fg
        /\ last.level >= 3 =>
              /\ "DIM" \in TopStyle.add
              /\ TopStyle.fg \notin {HeadingStyle(1).fg, HeadingStyle(2).fg}

\* C19 amended: every heading level pushes the one heading colour of the
\* theme, bold; the levels 1 and 2 push the same style and the levels from 3
\* on add the dim modifier; the style has no background and no other
\* modifier whatever the enclosing style is.
C19_HeadingStyleByLevel ==
    HeadingOpened =>
        TopStyle = [ fg  |-> theme.heading,
                     bg  |-> "None",
                     add |-> IF last.level >= 3 THEN {"BOLD", "DIM"} ELSE {"BOLD"} ]

\* C19 witness: a level-2 heading was opened and has the colour of level 1;
\* (the levels 3 to 6 are reached in the same family).
C19_Witness ==
    /\ family = "inline"
    /\ HeadingOpened
    /\ last.level = 2
    /\ TopStyle = [fg |-> "#58a6ff", bg |-> "None", add |-> {"BOLD"}]

\* C20: the document is append-only: after every step its sequence of Lines
\* is an extension of the sequence before the step, so no Line already
\* appended is removed, reordered or changed, nor any Span of it.
C20_AppendOnly ==
    [][ /\ Len(lines') >= Len(lines)
        /\ SubSeq(lines', 1, Len(lines)) = lines ]_vars

\* C20 witness: the paragraph "a<br>b" has been rendered to its end: the
\* Lines "a", "b" and the blank Line were appended one after the other.
C20_Witness ==
    /\ family = "inline"
    /\ pc = "done"
    /\ n = 3
    /\ lines = << <<Styled(<<"a">>, BaselineStyle)>>, <<Styled(<<"b">>, BaselineStyle)>>,
                  BlankLine >>

\* C12: no caller-level error ends the loop: run returns only by the quit
\* command, and an error of opening a file or of moving to a directory is
\* reported in error_message with the session still in the Explorer.
C12_ErrorsAreReported == run_result \in {"idle", "running", "quit"}

\* the number of lists the stream has open
OpenLists == Cardinality({i \in 1..Len(open) : open[i].ev.tag = "List"})

\* C21: while every End closes the innermost open tag, the list stack is as
\* long as the number of open lists after every event (so list-open pushes,
\* list-close pops and no other event changes the length), and an item opened
\* in a list starts its line with a Span of exactly 2 * (depth - 1) spaces,
\* depth being the length of the list stack (the item-open that aborts at
\* the counter's overflow, C11, emits nothing).
C21_ListStackLockstep ==
    wellFormed =>
        /\ Len(list_stack) = OpenLists
        /\ (ItemOpenedInList /\ pc # "panic") =>
              /\ current_spans # <<>>
              /\ current_spans[1].content = [i \in 1..(2 * (Len(list_stack) - 1)) |-> " "]

\* C21 witness: an item was opened in a list nested in an item of another
\* list: two lists are open, the stack holds two counters, and the indent is
\* two spaces.
C21_Witness ==
    /\ family = "list"
    /\ ItemOpenedInList
    /\ OpenLists = 2
    /\ Len(list_stack) = 2
    /\ current_spans[1].content = <<" ", " ">>

\* C23: in the documents made of the tokenizer's streams no Span of the
\* document or of the pending line holds the placeholder in its text,
\* whichever event carried it.
C23_PlaceholderConsumed ==
    (family # "any") =>
        \A i \in 1..Len(AllSpans) : ~Contains(AllSpans[i].content, placeholder)

\* C24: on the tokenizer's streams a step that appends Lines to the document
\* either finds the pending line empty or appends the pending line first
\* (its Spans open the first Line appended), so that no Line produced by a
\* later event comes to stand before Spans produced by an earlier one.
C24_OrderKept ==
    [][ (family # "any" /\ Len(lines') > Len(lines) /\ current_spans # <<>>) =>
          LET first == lines'[Len(lines) + 1] IN
          /\ Len(first) >= Len(current_spans)
          /\ SubSeq(first, 1, Len(current_spans)) = current_spans
      ]_vars

\* the largest offset the claim allows: max(0, height - frame height),
\* truncated to 16 bits
ScrollBound(height, frame) == (IF height > frame THEN height - frame ELSE 0) % 65536

\* C22: a scroll step (scroll_up or scroll_down that moves the offset) leaves
\* the document as it was, leaves the offset at 0 or above, and leaves it at
\* most at the scroll bound of the terminal's current height, whatever
\* changes of the height came before.
C22_ScrollWithinBound ==
    [][ ( /\ preview_state # None /\ preview_state' # None
          /\ preview_state'[1].scroll # preview_state[1].scroll ) =>
          /\ preview_state'[1].content = preview_state[1].content
          /\ preview_state'[1].scroll >= 0
          /\ preview_state'[1].scroll
                <= ScrollBound(preview_state'[1].content.height, frame_height')
      ]_vars

\* C25: in every state of the run loop the mode is Preview exactly when a
\* preview state is present, so the loop is never in Preview mode with
\* nothing to draw; while run is in Preview mode the key 'q' is handled (it
\* drops the preview state and returns to the Explorer); and outside command
\* mode the command input is empty.
C25_ModeMatchesPreview ==
    /\ (mode = "Preview") <=> (preview_state # None)
    /\ (mode = "Preview" /\ run_result = "running") => ENABLED PreviewQuit
    /\ ~explorer_state.in_command_mode => explorer_state.command_input = <<>>

\* C25 witness: the command "hp a" has opened the HTML preview: the mode is
\* Preview, the preview state is present, command mode is left and the
\* input is empty.
C25_Witness ==
    /\ run_result = "running"
    /\ mode = "Preview"
    /\ preview_state # None
    /\ preview_state[1].content.html
    /\ ~explorer_state.in_command_mode
    /\ explorer_state.command_input = <<>>

====
